---- MODULE Spec2Model ----
(***************************************************************************)
(* Model of src/app.py: the Streamlit dashboard with the Gemini chart      *)
(* assistant and the chat loop.                                            *)
(*                                                                         *)
(* Text is a sequence of tokens.  A token is one character class of the    *)
(* raw completion ("{", "}", whitespace, prose, ",") or one complete JSON  *)
(* member  "key": value.  A JSON value is a record [ty, s]: its Python     *)
(* type after json.loads and its content.                                  *)
(***************************************************************************)
EXTENDS Integers, Sequences, FiniteSets, TLC

\* ------------------------------------------------------------- bounds
MaxLen == 3        \* longest free-form token text the service returns
MaxWrap == 1       \* longest prose prefix / suffix around a JSON object
MaxTurns == 2      \* chat turns per session

\* ------------------------------------------------------------- values
Str(s) == [ty |-> "str", s |-> s]
Null == [ty |-> "null", s |-> ""]
Num(s) == [ty |-> "num", s |-> s]
List(s) == [ty |-> "list", s |-> s]
NoVal == [ty |-> "absent", s |-> ""]

\* Python truth value of a decoded JSON value (if agg: / color and ...)
Truthy(v) ==
    CASE v.ty = "str" -> v.s # ""
      [] v.ty = "num" -> v.s # "0"
      [] v.ty = "list" -> v.s # "[]"
      [] OTHER -> FALSE

\* hash(v) succeeds for every decoded JSON value except list (and dict)
Hashable(v) == v.ty # "list"

\* ------------------------------------------------------------- tokens
Tok(c) == [c |-> c, key |-> "", val |-> NoVal]
Member(k, v) == [c |-> "member", key |-> k, val |-> v]
LB == Tok("{")
RB == Tok("}")
WS == Tok(" ")
PR == Tok("prose")
CM == Tok(",")

\* ------------------------------------------------------------- dataset
DatetimeColumns == {"Order Date", "Ship Date"}
ObjectColumns == {"Region", "Segment", "Category", "Sub-Category", "Ship Mode", "Order ID"}
NumericColumns == {"Sales", "Profit", "Quantity", "Discount"}
Columns == DatetimeColumns \cup ObjectColumns \cup NumericColumns

\* x in filtered.columns : pandas Index.__contains__ hashes the key first
\* (TypeError for a list) and is False for anything that is no column label
InColumns(v) ==
    IF ~Hashable(v) THEN "TypeError"
    ELSE IF v.ty = "str" /\ v.s \in Columns THEN "True"
    ELSE "False"

\* ------------------------------------------------------------- str methods
IsWs(t) == t.c = " "

\* str.strip(): drop leading and trailing whitespace
Strip(s) ==
    LET keep == {i \in 1..Len(s) : ~IsWs(s[i])}
    IN  IF keep = {} THEN <<>>
        ELSE LET lo == CHOOSE i \in keep : \A j \in keep : i <= j
                 hi == CHOOSE i \in keep : \A j \in keep : j <= i
             IN  SubSeq(s, lo, hi)

\* a plausible slip: search the opening brace from the right as well
FindFromRight(s, c) ==
    LET at == {i \in 1..Len(s) : s[i].c = c}
    IN  IF at = {} THEN -1
        ELSE (CHOOSE i \in at : \A j \in at : j <= i) - 1

\* str.find(c): 0-based index of the first c, -1 when there is none
Find(s, c) ==
    LET at == {i \in 1..Len(s) : s[i].c = c}
    IN  IF at = {} THEN -1
        ELSE (CHOOSE i \in at : \A j \in at : i <= j) - 1

\* str.rfind(c): 0-based index of the last c, -1 when there is none
RFind(s, c) ==
    LET at == {i \in 1..Len(s) : s[i].c = c}
    IN  IF at = {} THEN -1
        ELSE (CHOOSE i \in at : \A j \in at : j <= i) - 1

\* raw[start : end + 1] with 0-based start, end (empty when end < start)
Slice(s, start, end) == SubSeq(s, start + 1, end + 1)

\* ------------------------------------------------------------- json.loads
Keys == {"chart_type", "x", "y", "color", "aggregate"}

NonWs(s) == SelectSeq(s, LAMBDA t : ~IsWs(t))

\* the text is one JSON object: { member , member ... } with optional
\* whitespace between tokens; anything else raises JSONDecodeError
JsonValid(s) ==
    LET b == NonWs(s)
        n == Len(b)
    IN  /\ n >= 2
        /\ b[1].c = "{"
        /\ b[n].c = "}"
        /\ \/ n = 2
           \/ /\ n % 2 = 1
              /\ \A i \in 2..(n - 1) :
                    IF i % 2 = 0 THEN b[i].c = "member" ELSE b[i].c = ","

\* the decoded dict: for a repeated key the last member wins
JsonLoads(s) ==
    LET b == NonWs(s)
    IN  [k \in Keys |->
            LET at == {i \in 1..Len(b) : b[i].c = "member" /\ b[i].key = k}
            IN  IF at = {} THEN NoVal
                ELSE b[CHOOSE i \in at : \A j \in at : j <= i].val]

\* a plausible slip: spec.get(k) or default, which also replaces null
DictGetOrDefault(d, k, default) ==
    IF d[k] = NoVal \/ ~Truthy(d[k]) THEN default ELSE d[k]

\* dict.get(k, default): the default only when the key is absent
DictGet(d, k, default) ==
    IF d[k] = NoVal THEN default ELSE d[k]

\* lines 187-210 after the model call: strip, the two ValueErrors, the
\* slice, json.loads and the five spec.get calls.  exc names the exception
\* raised ("" when none); echo is whether st.write showed the raw text.
ParseChartSpec(text) ==
    LET raw == Strip(text)
        start == Find(raw, "{")
        end == RFind(raw, "}")
        raw_json == Slice(raw, start, end)
        spec == JsonLoads(raw_json)
        none == [exc |-> "", raw |-> raw, chart_type |-> NoVal, x |-> NoVal,
                 y |-> NoVal, color |-> NoVal, agg |-> NoVal]
    IN  IF raw = <<>> THEN [none EXCEPT !.exc = "EmptyResponse"]
        ELSE IF start = -1 \/ end = -1 THEN [none EXCEPT !.exc = "NoJsonFound"]
        ELSE IF ~JsonValid(raw_json) THEN [none EXCEPT !.exc = "MalformedJson"]
        ELSE [exc |-> "", raw |-> raw,
              chart_type |-> DictGet(spec, "chart_type", Str("bar")),
              x |-> DictGet(spec, "x", Str("Category")),
              y |-> DictGet(spec, "y", Str("Sales")),
              color |-> DictGet(spec, "color", Null),
              agg |-> DictGet(spec, "aggregate", Str("sum"))]

\* ------------------------------------------------------------- chart building
\* str.capitalize() of the aggregate names the service can send
Capitalize(s) ==
    CASE s = "sum" -> "Sum"
      [] s = "mean" -> "Mean"
      [] s = "count" -> "Count"
      [] s = "median" -> "Median"
      [] OTHER -> s

NoEnc == [field |-> "", level |-> ""]
NoY == [shorthand |-> <<>>, title |-> <<>>]
NoChart == [mark |-> "", x |-> NoEnc, y |-> NoY, color |-> NoEnc, title |-> ""]

\* X encoding: datetime columns are temporal, object columns nominal, the
\* rest quantitative
XEncoding(x) ==
    IF x \in DatetimeColumns THEN [field |-> x, level |-> "T"]
    ELSE IF x \in ObjectColumns THEN [field |-> x, level |-> "N"]
    ELSE [field |-> x, level |-> "Q"]

\* Y encoding: the shorthand string piece by piece, and the axis title.
\* The else branch drops the opening parenthesis: f"{y}):Q".
YEncoding(agg, y) ==
    IF Truthy(agg)
    THEN [shorthand |-> <<agg.s, "(", y, ")", ":Q">>,
          title |-> <<Capitalize(agg.s), " of ", y>>]
    ELSE [shorthand |-> <<y, ")", ":Q">>, title |-> <<y>>]

\* mark_line(point=True) / mark_point() / mark_bar()
Mark(chart_type) ==
    IF chart_type = Str("line") THEN "line"
    ELSE IF chart_type = Str("scatter") THEN "point"
    ELSE "bar"

\* ------------------------------------------------------------- chart action
\* what one script run leaves in the chart section of the page
Blank ==
    [ran |-> FALSE, calls |-> 0, echo |-> <<>>, errors |-> <<>>,
     rendered |-> FALSE, chart |-> NoChart, escaped |-> FALSE]

ErrorMsg(msg, exc, x, y) == [msg |-> msg, exc |-> exc, x |-> x, y |-> y]

\* a plausible slip: the handler retries the model once when the call raised
GenerateContentRetry(reply) ==
    [raised |-> reply.raises, text |-> reply.text,
     calls |-> IF reply.raises THEN 2 ELSE 1]

\* model.generate_content(...) and resp.text: one outbound call, which
\* returns the completion text or raises
GenerateContent(reply) ==
    [raised |-> reply.raises, text |-> reply.text, calls |-> 1]

\* a plausible slip: the handler lets the exception through
ExceptReraise(out, exc) ==
    [out EXCEPT !.escaped = TRUE]

\* except Exception as e: st.error(f"Could not create chart: {e}")
ExceptHandler(out, exc) ==
    [out EXCEPT !.errors = Append(@, ErrorMsg("Could not create chart", exc, NoVal, NoVal))]

\* lines 212-249: the column check, the encodings, the mark, st.altair_chart
BuildChart(out, p, chart_query) ==
    LET inx == InColumns(p.x)
        iny == InColumns(p.y)
    IN  IF inx = "TypeError" THEN ExceptHandler(out, "TypeError")
        ELSE IF inx = "False"
        THEN [out EXCEPT !.errors = Append(@, ErrorMsg("Invalid fields from model", "", p.x, p.y))]
        ELSE IF iny = "TypeError" THEN ExceptHandler(out, "TypeError")
        ELSE IF iny = "False"
        THEN [out EXCEPT !.errors = Append(@, ErrorMsg("Invalid fields from model", "", p.x, p.y))]
        ELSE IF Truthy(p.agg) /\ p.agg.ty # "str" THEN ExceptHandler(out, "AttributeError")
        ELSE IF Truthy(p.color) /\ InColumns(p.color) = "TypeError"
        THEN ExceptHandler(out, "TypeError")
        ELSE [out EXCEPT
                !.rendered = TRUE,
                !.chart = [mark |-> Mark(p.chart_type),
                           x |-> XEncoding(p.x.s),
                           y |-> YEncoding(p.agg, p.y.s),
                           color |-> IF Truthy(p.color) /\ InColumns(p.color) = "True"
                                     THEN [field |-> p.color.s, level |-> "N"]
                                     ELSE NoEnc,
                           title |-> chart_query]]

\* lines 171-252: if create_btn and chart_query: ...
ChartAction(create_btn, chart_query, key, mdl, reply) ==
    IF ~(create_btn /\ chart_query # "") THEN Blank
    ELSE IF ~(key # "" /\ mdl # "None")
    THEN [Blank EXCEPT !.ran = TRUE,
                       !.errors = <<ErrorMsg("Gemini API key not set", "", NoVal, NoVal)>>]
    ELSE LET resp == GenerateContent(reply)
             called == [Blank EXCEPT !.ran = TRUE, !.calls = resp.calls]
         IN  IF resp.raised THEN ExceptHandler(called, "ModelCallFailed")
             ELSE LET p == ParseChartSpec(resp.text)
                      shown == [called EXCEPT !.echo = <<p.raw>>]
                  IN  IF p.exc # "" THEN ExceptHandler(shown, p.exc)
                      ELSE BuildChart(shown, p, chart_query)

\* ------------------------------------------------------------- chat
\* a plausible slip: the assistant entry is skipped when the call raised
ChatTurnDropError(history, user_q, outcome) ==
    IF outcome.raises THEN Append(history, <<"user", user_q>>)
    ELSE Append(Append(history, <<"user", user_q>>), <<"assistant", outcome.text>>)

\* lines 287-314: append the question, call the model, append the answer
\* (the error text when the call raised)
ChatTurn(history, user_q, outcome) ==
    LET answer == IF outcome.raises THEN "Error from Gemini" ELSE outcome.text
    IN  Append(Append(history, <<"user", user_q>>), <<"assistant", answer>>)

\* ------------------------------------------------------------- inputs
SeqsUpTo(A, n) == UNION {[1..k -> A] : k \in 0..n}

\* free-form completions: every token text up to MaxLen
Alphabet == {LB, RB, WS, PR, CM, Member("x", Str("Sales"))}
FreeTexts == SeqsUpTo(Alphabet, MaxLen)

\* well-formed completions: one JSON object, each field absent or one of
\* the listed values
ChartTypeValues == {NoVal, Str("line"), Str("scatter"), Str("pie")}
XValues == {NoVal, Str("Order Date"), Str("Sales"), Str("NotAColumn"), List("[\"Category\"]")}
YValues == {NoVal, Str("NotAColumn"), List("[\"Sales\"]")}
ColorValues == {NoVal, Null, Str("Region"), Str("NotReal"), List("[\"Region\"]")}
AggValues == {NoVal, Null, Str(""), Str("sum"), Str("mean"), Str("median"), Num("5")}

Render(ct, x, y, color, agg) ==
    LET all == <<Member("chart_type", ct), Member("x", x), Member("y", y),
                 Member("color", color), Member("aggregate", agg)>>
        ms == SelectSeq(all, LAMBDA m : m.val # NoVal)
        n == Len(ms)
        inner == IF n = 0 THEN <<>>
                 ELSE [i \in 1..(2 * n - 1) |->
                          IF i % 2 = 1 THEN ms[(i + 1) \div 2] ELSE CM]
    IN  <<LB>> \o inner \o <<RB>>

ObjectTexts ==
    {Render(ct, x, y, c, a) : ct \in ChartTypeValues, x \in XValues,
                              y \in YValues, c \in ColorValues, a \in AggValues}

\* completions that wrap an object text in prose or fences: the prefix has
\* no "{" and the suffix has no "}"
Prefixes == SeqsUpTo({WS, PR, RB}, MaxWrap)
Suffixes == SeqsUpTo({WS, PR, LB}, MaxWrap)
WrappedObjects ==
    { Render(NoVal, NoVal, NoVal, NoVal, NoVal),
      Render(Str("line"), Str("Order Date"), Str("Sales"), Null, Str("sum")),
      Render(NoVal, Str("Category"), Str("NotAColumn"), NoVal, NoVal),
      <<LB, PR, RB>>,
      <<LB, Member("x", Str("Sales")), RB, PR, LB, Member("y", Str("Profit")), RB>>,
      <<LB, Member("x", Str("NotAColumn")), CM, Member("x", Str("Region")), RB>> }
WrappedTexts == {p \o j \o s : p \in Prefixes, j \in WrappedObjects, s \in Suffixes}

Texts == FreeTexts \cup ObjectTexts \cup WrappedTexts

CallRaises == [raises |-> TRUE, text |-> <<>>]
Replies == {CallRaises} \cup {[raises |-> FALSE, text |-> t] : t \in Texts}

Queries == {"", "sales by region"}
Regions == {"All", "West"}
Questions == {"which category is most profitable?"}
ChatOutcomes == {[raises |-> TRUE, text |-> ""], [raises |-> FALSE, text |-> "answer"]}

\* ------------------------------------------------------------- state
VARIABLES
    GEMINI_API_KEY,   \* os.getenv("GEMINI_API_KEY"); "" when unset or empty
    model,            \* the GenerativeModel, "None" without a key
    gemini,           \* what the service answers to a chart prompt in this session
    chart_query,      \* the text input
    selected_region,  \* the sidebar filter selection
    chat_history,     \* st.session_state.chat_history
    chart_area        \* the chart section of the page after the last script run

vars == <<GEMINI_API_KEY, model, gemini, chart_query, selected_region,
          chat_history, chart_area>>

ModelEnabled == GEMINI_API_KEY # "" /\ model # "None"

Init ==
    /\ GEMINI_API_KEY \in {"", "secret"}
    /\ model = IF GEMINI_API_KEY # "" THEN "gemini" ELSE "None"
    /\ gemini \in (IF GEMINI_API_KEY # "" THEN Replies ELSE {CallRaises})
    /\ chart_query = ""
    /\ selected_region = "All"
    /\ chat_history = <<>>
    /\ chart_area = Blank

\* the user edits the text input: a script run with create_btn False
EditQuery(q) ==
    /\ q # chart_query
    /\ chart_query' = q
    /\ chart_area' = ChartAction(FALSE, q, GEMINI_API_KEY, model, gemini)
    /\ UNCHANGED <<GEMINI_API_KEY, model, gemini, selected_region, chat_history>>

\* the user changes the sidebar filter: a script run with create_btn False
SelectRegion(r) ==
    /\ r # selected_region
    /\ selected_region' = r
    /\ chart_area' = ChartAction(FALSE, chart_query, GEMINI_API_KEY, model, gemini)
    /\ UNCHANGED <<GEMINI_API_KEY, model, gemini, chart_query, chat_history>>

\* the user presses "Create chart": a script run with create_btn True
ClickCreate ==
    /\ chart_area' = ChartAction(TRUE, chart_query, GEMINI_API_KEY, model, gemini)
    /\ UNCHANGED <<GEMINI_API_KEY, model, gemini, chart_query, selected_region,
                   chat_history>>

\* the user submits a chat question: a script run with create_btn False
\* and user_q set; the chat input exists only with the model enabled
SubmitChat(user_q, outcome) ==
    /\ ModelEnabled
    /\ Len(chat_history) < 2 * MaxTurns
    /\ chat_history' = ChatTurn(chat_history, user_q, outcome)
    /\ chart_area' = ChartAction(FALSE, chart_query, GEMINI_API_KEY, model, gemini)
    /\ UNCHANGED <<GEMINI_API_KEY, model, gemini, chart_query, selected_region>>

Next ==
    \/ \E q \in Queries : EditQuery(q)
    \/ \E r \in Regions : SelectRegion(r)
    \/ ClickCreate
    \/ \E q \in Questions, o \in ChatOutcomes : SubmitChat(q, o)

Spec == Init /\ [][Next]_vars

\* ------------------------------------------------------------- claims
\* the last script run was a chart-creation action whose model call returned
Acted == chart_area.ran /\ ModelEnabled /\ ~gemini.raises

\* the completion of the session, parsed
Parsed == ParseChartSpec(gemini.text)

\* the decoded JSON object of the completion, before the defaults
Decoded ==
    LET raw == Strip(gemini.text)
    IN  JsonLoads(Slice(raw, Find(raw, "{"), RFind(raw, "}")))

Known(v) == v.ty = "str" /\ v.s \in Columns

\* the aggregate of a y-encoding: the function name of the shorthand
\* agg(field):Q, "null" for a shorthand without one
AggregateOf(yenc) ==
    IF Len(yenc.shorthand) = 5 THEN yenc.shorthand[1] ELSE "null"

\* the error kind a chart action ended in
ErrorKind(area) ==
    IF area.errors = <<>> THEN "none"
    ELSE IF area.errors[1].msg = "Invalid fields from model" THEN "UnknownColumn"
    ELSE IF area.errors[1].msg = "Gemini API key not set" THEN "ModelUnavailable"
    ELSE area.errors[1].exc

\* C1: a chart is rendered only if the extracted x and y are both known
\* columns, and is drawn over exactly those fields; if either is not, the
\* action ends in the UnknownColumn error and renders no chart.
C1_ColumnHardGate ==
    (Acted /\ Parsed.exc = "") =>
        /\ chart_area.rendered =>
              /\ Known(Parsed.x) /\ Known(Parsed.y)
              /\ chart_area.chart.x.field = Parsed.x.s
              /\ chart_area.chart.y.shorthand[Len(chart_area.chart.y.shorthand) - 2] = Parsed.y.s
        /\ ~(Known(Parsed.x) /\ Known(Parsed.y)) =>
              /\ ~chart_area.rendered
              /\ ErrorKind(chart_area) = "UnknownColumn"

\* C2: with x and y known, an aggregate outside {sum, mean, count} does not
\* fail the request and gives a directive without aggregate; the aggregate
\* of the y-encoding is always sum, mean, count or null.  (Stated for string
\* aggregates and an absent colour, where nothing else can stop the chart.)
C2_AggregateSoftGate ==
    (Acted /\ Parsed.exc = "" /\ Known(Parsed.x) /\ Known(Parsed.y)
           /\ Parsed.agg.ty = "str" /\ Decoded["color"] = NoVal) =>
        /\ chart_area.rendered
        /\ AggregateOf(chart_area.chart.y) \in {"sum", "mean", "count", "null"}
        /\ Parsed.agg.s \notin {"sum", "mean", "count"} =>
              AggregateOf(chart_area.chart.y) = "null"

ExpectedGate ==
    LET raw == Strip(gemini.text)
        braces == {i \in 1..Len(raw) : raw[i].c = "{"}
        closes == {i \in 1..Len(raw) : raw[i].c = "}"}
    IN  IF raw = <<>> THEN "EmptyResponse"
        ELSE IF braces = {} \/ closes = {} THEN "NoJsonFound"
        ELSE IF ~JsonValid(Slice(raw, Find(raw, "{"), RFind(raw, "}"))) THEN "MalformedJson"
        ELSE IF ~(Known(Parsed.x) /\ Known(Parsed.y)) THEN "UnknownColumn"
        ELSE "none"

\* C3: the first failing gate alone decides the error kind: EmptyResponse,
\* then NoJsonFound, then MalformedJson, then UnknownColumn.
C3_GateOrder ==
    (Acted /\ ExpectedGate # "none") =>
        /\ ErrorKind(chart_area) = ExpectedGate
        /\ ~chart_area.rendered

\* C4: every failure of a chart action is caught at the action: exactly one
\* error message, no chart, no escaping exception, and the filter selection
\* and the chat history are what they were before the action.
C4_FailuresCaught ==
    [][chart_area'.ran =>
          /\ ~chart_area'.escaped
          /\ selected_region' = selected_region
          /\ chat_history' = chat_history
          /\ Len(chart_area'.errors) <= 1
          /\ chart_area'.rendered <=> chart_area'.errors = <<>>
          /\ ~chart_area'.rendered => chart_area'.chart = NoChart
          /\ ErrorKind(chart_area') \in
                {"none", "ModelUnavailable", "ModelCallFailed", "EmptyResponse",
                 "NoJsonFound", "MalformedJson", "UnknownColumn", "TypeError",
                 "AttributeError"}]_vars

C4_Witness ==
    /\ chart_area.ran
    /\ ErrorKind(chart_area) = "MalformedJson"
    /\ ~chart_area.rendered
    /\ selected_region = "West"
    /\ Len(chat_history) = 2

\* C5: a chart action makes exactly one model call when the model is
\* configured, whatever the outcome, and none (with the notice) when it is
\* not; a script run without the action makes none.
C5_OneModelCall ==
    /\ (chart_area.ran /\ ModelEnabled) => chart_area.calls = 1
    /\ (chart_area.ran /\ ~ModelEnabled) =>
          /\ chart_area.calls = 0
          /\ ErrorKind(chart_area) = "ModelUnavailable"
    /\ ~chart_area.ran => chart_area.calls = 0

C5_Witness ==
    /\ chart_area.ran
    /\ gemini.raises
    /\ ErrorKind(chart_area) = "ModelCallFailed"
    /\ chart_area.calls = 1

\* C6: with x and y known, a colour that is non-null but no known column is
\* treated as absent: the chart is rendered, without colour encoding; a
\* colour encoding is present only for a known column, at nominal level.
\* (Stated for aggregates that cannot stop the chart: falsy or a string.)
C6_ColorSoftGate ==
    (Acted /\ Parsed.exc = "" /\ Known(Parsed.x) /\ Known(Parsed.y)
           /\ (~Truthy(Parsed.agg) \/ Parsed.agg.ty = "str")) =>
        /\ (Parsed.color # Null /\ ~Known(Parsed.color)) =>
              /\ chart_area.rendered
              /\ chart_area.chart.color = NoEnc
        /\ (chart_area.rendered /\ chart_area.chart.color # NoEnc) =>
              /\ Known(Parsed.color)
              /\ chart_area.chart.color = [field |-> Parsed.color.s, level |-> "N"]

Outcome(area) == [errors |-> area.errors, rendered |-> area.rendered, chart |-> area.chart]

\* C7: for a text J that opens with "{" and closes with "}", a prefix
\* without "{" and a suffix without "}", the action on prefix + J + suffix
\* ends as the action on J alone: the same chart or the same error.
C7_ExtractionTolerance ==
    Acted =>
        \A i \in 1..Len(gemini.text), k \in 1..Len(gemini.text) :
            (/\ i < k
             /\ gemini.text[i].c = "{"
             /\ gemini.text[k].c = "}"
             /\ \A j \in 1..(i - 1) : gemini.text[j].c # "{"
             /\ \A j \in (k + 1)..Len(gemini.text) : gemini.text[j].c # "}")
            => Outcome(ChartAction(TRUE, chart_query, GEMINI_API_KEY, model,
                                   [raises |-> FALSE, text |-> SubSeq(gemini.text, i, k)]))
               = Outcome(chart_area)

C7_Witness ==
    /\ Acted
    /\ chart_area.rendered
    /\ Len(gemini.text) >= 4
    /\ gemini.text[1].c = "}"
    /\ gemini.text[2].c = "{"
    /\ gemini.text[Len(gemini.text)].c = "{"

Alternating(h) ==
    /\ Len(h) % 2 = 0
    /\ \A i \in 1..Len(h) : h[i][1] = (IF i % 2 = 1 THEN "user" ELSE "assistant")

\* C10: the chat history is append-only and alternating: it is a sequence
\* of (user, assistant) pairs, and every change to it appends the submitted
\* question followed by one assistant entry, the error text when the call
\* raised, leaving the earlier entries as they were.
C10_ChatAppendOnly ==
    /\ []Alternating(chat_history)
    /\ [][chat_history' # chat_history =>
            \E q \in Questions, a \in {"answer", "Error from Gemini"} :
                chat_history' = chat_history \o <<<<"user", q>>, <<"assistant", a>>>>]_vars

C10_Witness ==
    /\ Len(chat_history) = 4
    /\ chat_history[2] = <<"assistant", "Error from Gemini">>
    /\ chat_history[4] = <<"assistant", "answer">>

====
